---- MODULE Spec2Model ----
(***************************************************************************)
(* Model of the crawl engine of WS.py (class AdvancedScraper and main):    *)
(* the frontier queue, the visited set, the fetch / parse / enqueue cycle, *)
(* the proxy cursor and the export step.                                   *)
(*                                                                         *)
(* A URL is a Python str, modelled as a sequence of one-character strings. *)
(* A page body is a sequence of elements (anchors, e-mail and phone text,  *)
(* forms, plain text); the empty sequence is the empty string "".          *)
(***************************************************************************)
EXTENDS Integers, Sequences, FiniteSets, TLC

(***************************************************************************)
(* Bounds of the model.                                                    *)
(***************************************************************************)
MaxPagesBound == 3
MaxProxies == 2
MaxCalls == 8

(***************************************************************************)
(* Python's None and optional values.                                      *)
(***************************************************************************)
None == [isNone |-> TRUE]
Some(v) == [isNone |-> FALSE, val |-> v]

(***************************************************************************)
(* Strings as character sequences.                                         *)
(***************************************************************************)
SchemeChars == {"h", "t", "p", "s", "m", "a", "i", "l", "o"}
NetlocDelims == {"/", "?", "#"}

\* str.find over a set of characters, starting at index from (1-based);
\* Len(s) + 1 when there is none
FirstIdx(s, from, C) ==
    LET I == {i \in from..Len(s) : s[i] \in C}
    IN  IF I = {} THEN Len(s) + 1 ELSE CHOOSE i \in I : \A j \in I : i <= j

\* str.rfind of a character; 0 when there is none
LastIdx(s, c) ==
    LET I == {i \in 1..Len(s) : s[i] = c}
    IN  IF I = {} THEN 0 ELSE CHOOSE i \in I : \A j \in I : j <= i

\* str.endswith(suffix)
EndsWith(s, suffix) ==
    /\ Len(suffix) <= Len(s)
    /\ SubSeq(s, Len(s) - Len(suffix) + 1, Len(s)) = suffix

\* the tuple ('.pdf', '.jpg', '.png', '.gif')
SkippedSuffixes ==
    { <<".", "p", "d", "f">>, <<".", "j", "p", "g">>,
      <<".", "p", "n", "g">>, <<".", "g", "i", "f">> }

\* str.endswith(tuple): true when the string ends with any member
EndsWithAny_PdfOnly(s) == EndsWith(s, <<".", "p", "d", "f">>)

EndsWithAny(s) == \E suf \in SkippedSuffixes : EndsWith(s, suf)

(***************************************************************************)
(* urllib.parse.urlparse, restricted to what the crawler reads: the        *)
(* scheme, the network location, the path and the raw remainder (query     *)
(* and fragment with their delimiters).                                    *)
(***************************************************************************)
urlparse(url) ==
    LET colon == FirstIdx(url, 1, {":"})
        hasScheme == /\ colon > 1
                     /\ colon <= Len(url)
                     /\ \A i \in 1..(colon - 1) : url[i] \in SchemeChars
        scheme == IF hasScheme THEN SubSeq(url, 1, colon - 1) ELSE <<>>
        rest == IF hasScheme THEN SubSeq(url, colon + 1, Len(url)) ELSE url
        hasNetloc == Len(rest) >= 2 /\ rest[1] = "/" /\ rest[2] = "/"
        delim == FirstIdx(rest, 3, NetlocDelims)
        netloc == IF hasNetloc THEN SubSeq(rest, 3, delim - 1) ELSE <<>>
        after == IF hasNetloc THEN SubSeq(rest, delim, Len(rest)) ELSE rest
        qpos == FirstIdx(after, 1, {"?", "#"})
    IN  [scheme |-> scheme,
         netloc |-> netloc,
         path |-> SubSeq(after, 1, qpos - 1),
         tail |-> SubSeq(after, qpos, Len(after))]

\* urlunparse for a URL with a network location
urlunparse(scheme, netloc, path, tail) ==
    scheme \o <<":", "/", "/">> \o netloc \o path \o tail

(***************************************************************************)
(* urllib.parse.urljoin(base, url) for the references that occur in the    *)
(* modelled pages: absolute URLs, protocol-relative references and         *)
(* references with a non-empty path without dot segments.                  *)
(***************************************************************************)
urljoin(base, url) ==
    LET b == urlparse(base)
        u == urlparse(url)
        bdir == SubSeq(b.path, 1, LastIdx(b.path, "/"))
        dir == IF bdir = <<>> THEN <<"/">> ELSE bdir
    IN  IF u.scheme # <<>> /\ u.scheme # b.scheme THEN url
        ELSE IF u.netloc # <<>>
             THEN urlunparse(b.scheme, u.netloc, u.path, u.tail)
        ELSE IF u.path # <<>> /\ u.path[1] = "/"
             THEN urlunparse(b.scheme, b.netloc, u.path, u.tail)
        ELSE urlunparse(b.scheme, b.netloc, dir \o u.path, u.tail)

(***************************************************************************)
(* The URLs and references of the modelled sites.                          *)
(***************************************************************************)
Http == <<"h", "t", "t", "p", ":", "/", "/">>
Root == Http \o <<"h", "/">>
SeedPdf == Http \o <<"h", "/", "s", ".", "p", "d", "f">>
UA == Http \o <<"h", "/", "a">>
UB == Http \o <<"h", "/", "b">>
UAq == Http \o <<"h", "/", "a", "?", "q">>
UAf == Http \o <<"h", "/", "a", "#", "f">>
UOther == Http \o <<"o", "/", "c">>
UPort == Http \o <<"h", ":", "8", "/", "p">>
UUpper == Http \o <<"h", "/", "e", ".", "P", "D", "F">>
UGif == Http \o <<"h", "/", "g", ".", "g", "i", "f">>
UJpg == Http \o <<"h", "/", "j", ".", "j", "p", "g">>
UPng == Http \o <<"h", "/", "n", ".", "p", "n", "g">>
RelB == <<"b">>
RelRoot == <<"/">>
RelPdf == <<"/", "d", ".", "p", "d", "f">>
RelPdfQ == <<"d", ".", "p", "d", "f", "?", "q">>
RelOther == <<"/", "/", "o", "/", "c">>

\* elements of a page body
Anchor(href) == [tag |-> "a", val |-> href]
Mail(m) == [tag |-> "email", val |-> m]
Phone(p) == [tag |-> "phone", val |-> p]
Form == [tag |-> "form", val |-> ""]
Text == [tag |-> "text", val |-> ""]

SiteNames == {"scenario", "filters", "cycle", "single"}
BaseUrls == {Root, SeedPdf}

\* the body the server of a site holds for a URL
Body(s, url) ==
    IF url = SeedPdf THEN <<Anchor(RelRoot), Text>>
    ELSE IF s = "scenario" THEN
        IF url = Root
        THEN <<Anchor(UA), Anchor(UB), Anchor(UOther),
               Mail("a@b.com"), Phone("555-123-4567")>>
        ELSE <<Text>>
    ELSE IF s = "filters" THEN
        IF url = Root
        THEN <<Anchor(UAq), Anchor(RelPdf), Anchor(UUpper), Anchor(UPort),
               Anchor(<<>>), Anchor(UGif), Anchor(UJpg), Anchor(UPng),
               Anchor(RelOther), Form, Mail("a@b.com"), Mail("a@b.com")>>
        ELSE IF url = UAq THEN <<Anchor(Root), Mail("c@d.org"), Form>>
        ELSE <<Text>>
    ELSE IF s = "cycle" THEN
        IF url = Root THEN <<Anchor(UA), Anchor(UA), Anchor(RelB)>>
        ELSE IF url = UA
        THEN <<Anchor(Root), Anchor(UB), Anchor(UAf), Phone("555-123-4567"),
               Form, Form>>
        ELSE IF url = UB THEN <<Anchor(UA), Anchor(RelPdfQ)>>
        ELSE <<Text>>
    ELSE <<Text, Form>>

\* what one GET can produce: a transport exception, or a status with a body
Responses(s, url) ==
    { [exc |-> TRUE, status |-> 0, body |-> <<>>],
      [exc |-> FALSE, status |-> 404, body |-> Body(s, url)],
      [exc |-> FALSE, status |-> 200, body |-> Body(s, url)],
      [exc |-> FALSE, status |-> 200, body |-> <<>>] }

(***************************************************************************)
(* AdvancedScraper                                                         *)
(***************************************************************************)
VARIABLES
    base_url,       \* self.base_url
    max_pages,      \* crawl's max_pages: None or Some(n)
    site,           \* the site the run crawls
    proxies,        \* self.proxies
    current_proxy,  \* self.current_proxy (0-based)
    connector,      \* the proxy of the session's connector, or None
    visited,        \* self.visited
    data,           \* self.data
    queue,          \* crawl's local queue
    current_url,    \* crawl's local current_url
    pc,             \* position of main / crawl
    clock,          \* datetime.now()
    summary,        \* the summary export_data wrote, or None
    written,        \* the artifacts export_data wrote
    fetches,        \* history: the fetch_page calls, in order, with results
    pushed,         \* history: the URLs put on the queue, in order
    delays,         \* history: number of completed asyncio.sleep calls
    returned        \* history: the rotate_proxy calls, in order

vars == <<base_url, max_pages, site, proxies, current_proxy, connector,
          visited, data, queue, current_url, pc, clock, summary, written,
          fetches, pushed, delays, returned>>

\* load_proxies: the non-empty lines of proxies.txt, [] when it is missing
ProxyLists == { [i \in 1..n |-> i] : n \in 0..MaxProxies }

MaxPagesArgs == {None} \cup { Some(n) : n \in (0 - 1)..MaxPagesBound }

\* __init__, and main up to the call of crawl
Init ==
    /\ base_url \in BaseUrls
    /\ max_pages \in MaxPagesArgs
    /\ site \in SiteNames
    /\ proxies \in ProxyLists
    /\ current_proxy = 0
    /\ connector = None
    /\ visited = {}
    /\ data = <<>>
    /\ queue = <<>>
    /\ current_url = <<>>
    /\ pc = "main"
    /\ clock = 0
    /\ summary = None
    /\ written = {}
    /\ fetches = <<>>
    /\ pushed = <<>>
    /\ delays = 0
    /\ returned = <<>>

\* rotate_proxy: the new cursor; the cursor is left alone on an empty list
rotate_cursor_Stuck(ps, cur) == cur

rotate_cursor(ps, cur) == IF Len(ps) > 0 THEN (cur + 1) % Len(ps) ELSE cur

\* rotate_proxy: the proxy returned, None on an empty list
rotate_proxy_OldCursor(ps, cur) ==
    IF Len(ps) > 0 THEN Some(ps[cur + 1]) ELSE None

rotate_proxy(ps, cur) ==
    IF Len(ps) > 0 THEN Some(ps[rotate_cursor(ps, cur) + 1]) ELSE None

\* fetch_page: the body on status 200, None on any other status or exception
fetch_page_AnyStatus(resp) ==
    IF resp.exc THEN None ELSE Some(resp.body)

fetch_page(resp) ==
    IF resp.exc THEN None
    ELSE IF resp.status = 200 THEN Some(resp.body)
    ELSE None

\* truth value of fetch_page's result: None and "" are both false
Truthy(html) == IF html.isNone THEN FALSE ELSE Len(html.val) > 0

\* parse_page: the record of a page ([] for an empty html); title and
\* metadata do not reach the crawl loop or the summary and are left out
parse_page(html, url, now) ==
    IF html = <<>> THEN <<>>
    ELSE
    LET anchors == SelectSeq(html, LAMBDA e : e.tag = "a" /\ e.val # <<>>)
        forms == SelectSeq(html, LAMBDA e : e.tag = "form")
    IN  [url |-> url,
         timestamp |-> now,
         links |-> [i \in 1..Len(anchors) |->
                        [url |-> urljoin(url, anchors[i].val)]],
         emails |-> {html[i].val : i \in {j \in 1..Len(html) :
                                              html[j].tag = "email"}},
         phones |-> {html[i].val : i \in {j \in 1..Len(html) :
                                              html[j].tag = "phone"}},
         forms |-> [i \in 1..Len(forms) |-> "form"]]

\* should_crawl
should_crawl_NoNetloc(url, base, seen) ==
    /\ url \notin seen
    /\ ~EndsWithAny(url)

should_crawl(url, base, seen) ==
    /\ urlparse(url).netloc = urlparse(base).netloc
    /\ url \notin seen
    /\ ~EndsWithAny(url)

\* the links of a record that crawl appends to the queue
NewUrls_FirstOnly(page_data, base, seen) ==
    LET keep == SelectSeq(page_data.links,
                          LAMBDA l : should_crawl(l.url, base, seen))
    IN  [i \in 1..(IF Len(keep) > 0 THEN 1 ELSE 0) |-> keep[i].url]

NewUrls(page_data, base, seen) ==
    LET keep == SelectSeq(page_data.links,
                          LAMBDA l : should_crawl(l.url, base, seen))
    IN  [i \in 1..Len(keep) |-> keep[i].url]

\* crawl: the queue the loop starts with
InitialQueue_Empty(base) == <<>>

InitialQueue(base) == <<base>>

\* crawl: the while condition
LoopCond_Inclusive(q, seen, mp) ==
    q # <<>> /\ (IF mp.isNone THEN TRUE ELSE Cardinality(seen) <= mp.val)

LoopCond(q, seen, mp) ==
    q # <<>> /\ (IF mp.isNone THEN TRUE ELSE Cardinality(seen) < mp.val)

\* crawl: queue.pop(0), the element taken and the queue left
PopFront_Last(q) == [elem |-> q[Len(q)], rest |-> SubSeq(q, 1, Len(q) - 1)]

PopFront_Keep(q) == [elem |-> Head(q), rest |-> q]

PopFront(q) == [elem |-> Head(q), rest |-> Tail(q)]

\* scheme, host and path of a URL, without query and fragment
Normalized(url) ==
    LET u == urlparse(url) IN urlunparse(u.scheme, u.netloc, u.path, <<>>)

\* crawl: the test that skips a dequeued URL
AlreadyVisited_Never(url, seen) == FALSE

AlreadyVisited_Normalized(url, seen) ==
    \E v \in seen : Normalized(v) = Normalized(url)

AlreadyVisited(url, seen) == url \in seen

\* crawl, up to the while loop: the session's connector and the queue
CrawlStart ==
    /\ pc = "main"
    /\ current_proxy' = rotate_cursor(proxies, current_proxy)
    /\ connector' = rotate_proxy(proxies, current_proxy)
    /\ queue' = InitialQueue(base_url)
    /\ pushed' = InitialQueue(base_url)
    /\ returned' = IF Len(proxies) > 0
                   THEN Append(returned,
                               [cursor |-> rotate_cursor(proxies, current_proxy),
                                proxy |-> rotate_proxy(proxies, current_proxy)])
                   ELSE returned
    /\ pc' = "loop"
    /\ UNCHANGED <<base_url, max_pages, site, proxies, visited, data,
                   current_url, clock, summary, written, fetches, delays>>

\* crawl: the while condition fails; the session closes and crawl returns
LoopExit ==
    /\ pc = "loop"
    /\ ~LoopCond(queue, visited, max_pages)
    /\ pc' = "crawled"
    /\ UNCHANGED <<base_url, max_pages, site, proxies, current_proxy,
                   connector, visited, data, queue, current_url, clock,
                   summary, written, fetches, pushed, delays,
                   returned>>

\* crawl: a dequeued URL that is already visited is dropped (continue)
DequeueSkip_Sleeps ==
    /\ pc = "loop"
    /\ LoopCond(queue, visited, max_pages)
    /\ AlreadyVisited(PopFront(queue).elem, visited)
    /\ current_url' = PopFront(queue).elem
    /\ queue' = PopFront(queue).rest
    /\ pc' = "sleep"
    /\ UNCHANGED <<base_url, max_pages, site, proxies, current_proxy,
                   connector, visited, data, clock, summary, written,
                   fetches, pushed, delays, returned>>

DequeueSkip ==
    /\ pc = "loop"
    /\ LoopCond(queue, visited, max_pages)
    /\ AlreadyVisited(PopFront(queue).elem, visited)
    /\ current_url' = PopFront(queue).elem
    /\ queue' = PopFront(queue).rest
    /\ UNCHANGED <<base_url, max_pages, site, proxies, current_proxy,
                   connector, visited, data, pc, clock, summary, written,
                   fetches, pushed, delays,
                   returned>>

\* crawl: a dequeued URL is marked visited and fetch_page is awaited
DequeueFetch_NoAwait ==
    /\ pc \in {"loop", "fetch", "sleep"}
    /\ LoopCond(queue, visited, max_pages)
    /\ ~AlreadyVisited(PopFront(queue).elem, visited)
    /\ current_url' = PopFront(queue).elem
    /\ queue' = PopFront(queue).rest
    /\ visited' = visited \cup {PopFront(queue).elem}
    /\ fetches' = Append(fetches, [url |-> PopFront(queue).elem,
                                   result |-> "inflight"])
    /\ pc' = "fetch"
    /\ UNCHANGED <<base_url, max_pages, site, proxies, current_proxy,
                   connector, data, clock, summary, written, pushed, delays,
                   returned>>

DequeueFetch ==
    /\ pc = "loop"
    /\ LoopCond(queue, visited, max_pages)
    /\ ~AlreadyVisited(PopFront(queue).elem, visited)
    /\ current_url' = PopFront(queue).elem
    /\ queue' = PopFront(queue).rest
    /\ visited' = visited \cup {PopFront(queue).elem}
    /\ fetches' = Append(fetches, [url |-> PopFront(queue).elem,
                                   result |-> "inflight"])
    /\ pc' = "fetch"
    /\ UNCHANGED <<base_url, max_pages, site, proxies, current_proxy,
                   connector, data, clock, summary, written, pushed, delays,
                   returned>>

\* crawl: self.data.append(page_data)
AppendRecord_Front(records, page_data) == <<page_data>> \o records

AppendRecord(records, page_data) == Append(records, page_data)

\* how the history names a response
ResultOf(resp) ==
    IF resp.exc THEN "error"
    ELSE IF resp.status # 200 THEN "bad_status"
    ELSE IF resp.body = <<>> THEN "empty" ELSE "ok"

\* crawl: fetch_page returns; on a true html the page is parsed, recorded
\* and its links are filtered into the queue; then asyncio.sleep is awaited
FetchReturn ==
    /\ pc = "fetch"
    /\ \E resp \in Responses(site, current_url) :
         LET html == fetch_page(resp)
             page_data == parse_page(html.val, current_url, clock + 1)
             new == NewUrls(page_data, base_url, visited)
         IN  /\ fetches' = [fetches EXCEPT ![Len(fetches)].result =
                                ResultOf(resp)]
             /\ IF Truthy(html)
                THEN /\ data' = AppendRecord(data, page_data)
                     /\ queue' = queue \o new
                     /\ pushed' = pushed \o new
                     /\ clock' = clock + 1
                ELSE UNCHANGED <<data, queue, pushed, clock>>
    /\ pc' = "sleep"
    /\ UNCHANGED <<base_url, max_pages, site, proxies, current_proxy,
                   connector, visited, current_url, summary, written, delays,
                   returned>>

\* crawl: asyncio.sleep(self.delay) returns and the loop iterates
SleepDone ==
    /\ pc = "sleep"
    /\ delays' = delays + 1
    /\ pc' = "loop"
    /\ UNCHANGED <<base_url, max_pages, site, proxies, current_proxy,
                   connector, visited, data, queue, current_url, clock,
                   summary, written, fetches, pushed,
                   returned>>

\* sum(...) over a list of numbers
RECURSIVE Sum(_)
Sum(ns) == IF ns = <<>> THEN 0 ELSE Head(ns) + Sum(Tail(ns))

\* min(...) and max(...) of a non-empty collection
Min(S) == CHOOSE x \in S : \A y \in S : x <= y
Max(S) == CHOOSE x \in S : \A y \in S : y <= x

\* export_data: min() of an empty sequence raises ValueError
SummaryRaises_Never(records) == FALSE

SummaryRaises(records) == records = <<>>

\* export_data: the summary dictionary
SummaryOf_CountsRecords(seen, records) ==
    [pages_scraped |-> Len(records),
     total_links |-> Sum([i \in 1..Len(records) |-> Len(records[i].links)]),
     total_emails |-> Sum([i \in 1..Len(records) |->
                               Cardinality(records[i].emails)]),
     total_phones |-> Sum([i \in 1..Len(records) |->
                               Cardinality(records[i].phones)]),
     total_forms |-> Sum([i \in 1..Len(records) |-> Len(records[i].forms)]),
     start_time |-> 0,
     end_time |-> 0]

SummaryOf(seen, records) ==
    LET stamps == {records[i].timestamp : i \in 1..Len(records)}
    IN  [pages_scraped |-> Cardinality(seen),
         total_links |-> Sum([i \in 1..Len(records) |->
                                  Len(records[i].links)]),
         total_emails |-> Sum([i \in 1..Len(records) |->
                                   Cardinality(records[i].emails)]),
         total_phones |-> Sum([i \in 1..Len(records) |->
                                   Cardinality(records[i].phones)]),
         total_forms |-> Sum([i \in 1..Len(records) |->
                                  Len(records[i].forms)]),
         start_time |-> IF stamps = {} THEN 0 ELSE Min(stamps),
         end_time |-> IF stamps = {} THEN 0 ELSE Max(stamps)]

\* main: export_data writes the JSON and CSV dumps, then the summary; the
\* ValueError of an empty self.data leaves main before the summary is
\* written and before the completion message
ExportData ==
    /\ pc = "crawled"
    /\ IF SummaryRaises(data)
       THEN /\ written' = {"json", "csv"}
            /\ summary' = None
            /\ pc' = "failed"
       ELSE /\ written' = {"json", "csv", "summary"}
            /\ summary' = Some(SummaryOf(visited, data))
            /\ pc' = "exported"
    /\ UNCHANGED <<base_url, max_pages, site, proxies, current_proxy,
                   connector, visited, data, queue, current_url, clock,
                   fetches, pushed, delays,
                   returned>>

\* main: print "Scraping complete"
Complete ==
    /\ pc = "exported"
    /\ pc' = "done"
    /\ UNCHANGED <<base_url, max_pages, site, proxies, current_proxy,
                   connector, visited, data, queue, current_url, clock,
                   summary, written, fetches, pushed, delays,
                   returned>>

Next ==
    \/ CrawlStart
    \/ LoopExit
    \/ DequeueSkip
    \/ DequeueFetch
    \/ FetchReturn
    \/ SleepDone
    \/ ExportData
    \/ Complete

Spec == Init /\ [][Next]_vars

\* the event loop runs every step that is ready: the GET has a timeout and
\* the sleep is finite
FairSpec == Spec /\ WF_vars(Next)

(***************************************************************************)
(* rotate_proxy called repeatedly on a constructed scraper, over proxy     *)
(* files that may repeat an endpoint.                                      *)
(***************************************************************************)
ProxyPool == {"p1", "p2", "p3"}
RotateProxyLists == UNION { [1..n -> ProxyPool] : n \in 0..MaxProxies }

RotateInit ==
    /\ base_url = Root
    /\ max_pages = None
    /\ site = "single"
    /\ proxies \in RotateProxyLists
    /\ current_proxy = 0
    /\ connector = None
    /\ visited = {}
    /\ data = <<>>
    /\ queue = <<>>
    /\ current_url = <<>>
    /\ pc = "main"
    /\ clock = 0
    /\ summary = None
    /\ written = {}
    /\ fetches = <<>>
    /\ pushed = <<>>
    /\ delays = 0
    /\ returned = <<>>

\* one call of rotate_proxy
RotateCall ==
    /\ pc = "main"
    /\ Len(returned) < MaxCalls
    /\ current_proxy' = rotate_cursor(proxies, current_proxy)
    /\ returned' = Append(returned,
                          [cursor |-> rotate_cursor(proxies, current_proxy),
                           proxy |-> rotate_proxy(proxies, current_proxy)])
    /\ UNCHANGED <<base_url, max_pages, site, proxies, connector, visited,
                   data, queue, current_url, pc, clock, summary, written,
                   fetches, pushed, delays>>

RotateSpec == RotateInit /\ [][RotateCall]_vars

TypeOK ==
    /\ pc \in {"main", "loop", "fetch", "sleep", "crawled", "exported",
               "done", "failed"}
    /\ current_proxy \in 0..MaxProxies
    /\ Cardinality(visited) = Len(fetches)

(***************************************************************************)
(* Vocabulary of the properties.                                           *)
(***************************************************************************)
Failed == {"bad_status", "error"}
CrawlOver == pc \in {"crawled", "exported", "done", "failed"}
RunOver == pc \in {"done", "failed"}

\* number of fetch_page calls made for a URL
FetchCount(url) == Cardinality({i \in 1..Len(fetches) : fetches[i].url = url})

\* number of records of a URL in self.data
RecordCount(url) == Cardinality({i \in 1..Len(data) : data[i].url = url})

\* position of the first push of a URL onto the queue
FirstPush(url) ==
    CHOOSE i \in 1..Len(pushed) :
        /\ pushed[i] = url
        /\ \A j \in 1..(i - 1) : pushed[j] # url

PushedTwice(url) ==
    \E i, j \in 1..Len(pushed) : i < j /\ pushed[i] = url /\ pushed[j] = url

\* C1: every URL is passed to fetch_page at most once in a run, whatever
\* the dequeues, duplicate pushes and fetch failures.
C1_FetchedAtMostOnce ==
    \A i, j \in 1..Len(fetches) : fetches[i].url = fetches[j].url => i = j

\* a URL was pushed twice, its fetch failed, and the crawl ran to its end
C1_Witness ==
    /\ pc = "crawled"
    /\ \E k \in 1..Len(fetches) :
         /\ fetches[k].result \in Failed
         /\ PushedTwice(fetches[k].url)

\* C2: with max_pages = N >= 0 the visited set and the number of fetch
\* attempts never exceed N, and N = 0 performs no fetch.
C2_PageCeiling ==
    IF max_pages.isNone THEN TRUE
    ELSE max_pages.val >= 0 =>
            /\ Cardinality(visited) <= max_pages.val
            /\ Len(fetches) <= max_pages.val
            /\ (max_pages.val = 0 => fetches = <<>> /\ visited = {})

\* the ceiling stopped a crawl that still had URLs queued
C2_Witness ==
    /\ max_pages = Some(2)
    /\ pc = "crawled"
    /\ Cardinality(visited) = 2
    /\ queue # <<>>

\* C3: no discovered link is pushed onto the queue when its network
\* location differs from the seed's or when it ends in .pdf, .jpg, .png or
\* .gif (the first push is the seed itself, not a discovered link).
C3_FilteredLinksNeverPushed ==
    \A i \in 2..Len(pushed) :
        /\ urlparse(pushed[i]).netloc = urlparse(base_url).netloc
        /\ \A suf \in SkippedSuffixes : ~EndsWith(pushed[i], suf)

\* a recorded page had an off-site link and a link with a skipped suffix,
\* and links of that page were pushed
C3_Witness ==
    /\ Len(pushed) > 1
    /\ \E r \in 1..Len(data) :
         /\ \E l \in 1..Len(data[r].links) :
              urlparse(data[r].links[l].url).netloc # urlparse(base_url).netloc
         /\ \E l \in 1..Len(data[r].links) : EndsWithAny(data[r].links[l].url)

\* C4: when the fetch of the dequeued URL fails (non-200 status or
\* exception) the step appends no record, pushes nothing, leaves the URL in
\* the visited set and goes on to the sleep; the sleep returns to the loop
\* with the queue untouched, so the next entry is dequeued.
C4_FailedFetchContained ==
    [][ /\ (pc = "fetch" /\ pc' # "fetch"
              /\ fetches'[Len(fetches')].result \in Failed)
           => /\ data' = data
              /\ queue' = queue
              /\ visited' = visited
              /\ current_url \in visited'
              /\ pc' = "sleep"
        /\ pc = "sleep"
           => /\ pc' = "loop"
              /\ queue' = queue
              /\ visited' = visited
              /\ data' = data ]_vars

\* a fetch failed, its URL has no record, and a later URL was fetched
C4_Witness ==
    \E i \in 1..Len(fetches) :
        /\ fetches[i].result \in Failed
        /\ i < Len(fetches)
        /\ RecordCount(fetches[i].url) = 0
        /\ fetches[i].url \in visited

\* C5: every URL whose fetch returned status 200, whatever the body, has
\* exactly one record; every URL whose fetch returned another status or an
\* error has none.
C5_RecordIffStatus200 ==
    \A i \in 1..Len(fetches) :
        /\ fetches[i].result \in {"ok", "empty"}
              => RecordCount(fetches[i].url) = 1
        /\ fetches[i].result \in Failed => RecordCount(fetches[i].url) = 0

\* C6: URLs are fetched in the order of their first push onto the queue.
C6_FirstDiscoveredFirstFetched ==
    \A i, j \in 1..Len(fetches) :
        FirstPush(fetches[i].url) < FirstPush(fetches[j].url) => i < j

\* four URLs were fetched and one of them had been pushed twice
C6_Witness ==
    /\ Len(fetches) >= 4
    /\ \E k \in 1..Len(fetches) : PushedTwice(fetches[k].url)

\* C7: the crawl loop terminates, with or without max_pages, and when it
\* has terminated the queue is empty or max_pages is set and reached.
C7_CrawlTerminates ==
    /\ <>CrawlOver
    /\ [](CrawlOver =>
            \/ queue = <<>>
            \/ IF max_pages.isNone THEN FALSE
               ELSE Cardinality(visited) >= max_pages.val)

\* an unbounded crawl ended after successes and failures
C7_Witness ==
    /\ pc = "crawled"
    /\ max_pages.isNone
    /\ \E i, j \in 1..Len(fetches) :
         fetches[i].result = "ok" /\ fetches[j].result \in Failed

\* C8: a run that ends with no record fails in export_data: no summary is
\* written and the completion message is not reached.
C8_EmptyStoreIsFatal ==
    (pc \in {"exported", "done", "failed"} /\ data = <<>>)
        => /\ pc = "failed"
           /\ "summary" \notin written
           /\ summary = None

\* the seed's fetch failed and export_data raised
C8_Witness ==
    /\ pc = "failed"
    /\ Len(fetches) = 1
    /\ fetches[1].result \in Failed

\* C9 as stated, for the non-negative and unset max_pages: after the run
\* the seed has been fetched at most once and is in the visited set.
C9_SeedAlwaysVisited ==
    (CrawlOver /\ (IF max_pages.isNone THEN TRUE ELSE max_pages.val >= 0))
        => FetchCount(base_url) <= 1 /\ base_url \in visited

\* C9 amended: the seed is fetched at most once; after the run it is in the
\* visited set, fetched exactly once, when max_pages is unset or at least
\* 1, and nothing is visited when max_pages is 0 or less.
C9_SeedVisitedUnlessCeilingZero ==
    /\ FetchCount(base_url) <= 1
    /\ CrawlOver =>
         IF (IF max_pages.isNone THEN TRUE ELSE max_pages.val >= 1)
         THEN base_url \in visited /\ FetchCount(base_url) = 1
         ELSE visited = {} /\ fetches = <<>>

\* the run ended after a fetched page linked back to the seed
C9_Witness ==
    /\ CrawlOver
    /\ base_url \in visited
    /\ \E r \in 1..Len(data) :
         /\ data[r].url # base_url
         /\ \E l \in 1..Len(data[r].links) : data[r].links[l].url = base_url

\* what the pages of the successful fetches hold, from the site itself
Count(body, P(_)) == Cardinality({i \in 1..Len(body) : P(body[i])})
Distinct(body, tag) ==
    Cardinality({body[i].val : i \in {j \in 1..Len(body) : body[j].tag = tag}})
OverSuccessful(N(_)) ==
    Sum([i \in 1..Len(fetches) |->
            IF fetches[i].result = "ok" THEN N(Body(site, fetches[i].url))
            ELSE 0])

\* C10: the summary's pages_scraped is the size of the visited set, which
\* is the number of fetch attempts, failed ones included; the link, email,
\* phone and form totals count the pages of the successful fetches only.
C10_SummaryCounts ==
    IF summary.isNone THEN TRUE
    ELSE /\ summary.val.pages_scraped = Cardinality(visited)
         /\ summary.val.pages_scraped = Len(fetches)
         /\ summary.val.total_links = OverSuccessful(
                LAMBDA b : Count(b, LAMBDA e : e.tag = "a" /\ e.val # <<>>))
         /\ summary.val.total_emails = OverSuccessful(
                LAMBDA b : Distinct(b, "email"))
         /\ summary.val.total_phones = OverSuccessful(
                LAMBDA b : Distinct(b, "phone"))
         /\ summary.val.total_forms = OverSuccessful(
                LAMBDA b : Count(b, LAMBDA e : e.tag = "form"))

\* a summary was written for a run with failed fetches and recorded links
C10_Witness ==
    IF summary.isNone THEN FALSE
    ELSE /\ summary.val.pages_scraped > Len(data)
         /\ summary.val.total_links > 0
         /\ summary.val.total_emails > 0
         /\ \E i \in 1..Len(fetches) : fetches[i].result \in Failed

\* C11 as stated: two fetched URLs never have the same scheme, host and
\* path, so links that differ only in query or fragment are fetched at
\* most once between them.
C11_DedupOnNormalizedForm ==
    \A i, j \in 1..Len(fetches) :
        Normalized(fetches[i].url) = Normalized(fetches[j].url) => i = j

\* C11 amended: targets are deduplicated on the exact URL string. A
\* dequeued URL is fetched exactly when that string is not in the visited
\* set, also when a URL with the same scheme, host and path but another
\* query or fragment is already there.
C11_DedupOnExactString ==
    [][ (pc = "loop" /\ queue # <<>> /\ queue' = Tail(queue))
           => /\ (Head(queue) \notin visited
                    => /\ Len(fetches') = Len(fetches) + 1
                       /\ fetches'[Len(fetches')].url = Head(queue)
                       /\ visited' = visited \cup {Head(queue)})
              /\ (Head(queue) \in visited
                    => fetches' = fetches /\ visited' = visited) ]_vars

\* two URLs with the same scheme, host and path were both fetched
C11_Witness ==
    \E i, j \in 1..Len(fetches) :
        /\ i < j
        /\ Normalized(fetches[i].url) = Normalized(fetches[j].url)
        /\ fetches[i].url # fetches[j].url

\* the scenario of C12: the seed's page links to /a, /b and another host,
\* max_pages is 3 and the seed's fetch succeeded
Scenario ==
    /\ site = "scenario"
    /\ base_url = Root
    /\ max_pages = Some(3)
    /\ Len(fetches) >= 1
    /\ fetches[1].result = "ok"

\* one crawl step has been made: one URL dequeued, fetched and slept on
AfterOneStep == pc = "loop" /\ delays = 1 /\ Len(fetches) = 1

\* C12 as stated: after one crawl step of the scenario the visited set is
\* {seed, /a, /b} and the other host's URL has never been enqueued.
C12_VisitedAfterOneStep ==
    (Scenario /\ AfterOneStep)
        => /\ visited = {Root, UA, UB}
           /\ \A i \in 1..Len(pushed) : pushed[i] # UOther

\* C12 amended: after one crawl step of the scenario the visited set is
\* {seed} and the queue is [/a, /b]; when the crawl has ended the visited
\* set is {seed, /a, /b}, fetched in that order; the other host's URL is
\* never enqueued.
C12_ScenarioRun ==
    Scenario
        => /\ AfterOneStep => visited = {Root} /\ queue = <<UA, UB>>
           /\ CrawlOver
                => /\ visited = {Root, UA, UB}
                   /\ [i \in 1..Len(fetches) |-> fetches[i].url]
                          = <<Root, UA, UB>>
           /\ \A i \in 1..Len(pushed) : pushed[i] # UOther

\* the scenario's crawl ended with the three URLs visited
C12_Witness ==
    /\ Scenario
    /\ pc = "crawled"
    /\ visited = {Root, UA, UB}
    /\ \E r \in 1..Len(data) :
         \E l \in 1..Len(data[r].links) : data[r].links[l].url = UOther

\* the crawl filter as C13 words it: same network location as the seed,
\* not visited, and a path component without a skipped suffix
PathFilter(url) ==
    /\ urlparse(url).netloc = urlparse(base_url).netloc
    /\ url \notin visited
    /\ \A suf \in SkippedSuffixes : ~EndsWith(urlparse(url).path, suf)

\* C13: should_crawl accepts a candidate exactly when it has the seed's
\* network location, is not visited and its path component does not end
\* in .pdf, .jpg, .png or .gif, also when a query or fragment follows the
\* path: the links of a recorded page that are pushed are exactly those.
C13_FilterOnPathComponent ==
    [][ Len(data') = Len(data) + 1
           => LET links == data'[Len(data')].links
                  new == SubSeq(pushed', Len(pushed) + 1, Len(pushed'))
              IN  \A l \in 1..Len(links) :
                      (\E k \in 1..Len(new) : new[k] = links[l].url)
                          <=> PathFilter(links[l].url) ]_vars

\* C14: every fetch attempt, successful or not, is followed by exactly one
\* sleep before the next dequeue or the end of the loop; a dequeued URL
\* that is already visited is dropped with no fetch, no sleep and no change
\* to the visited set or the records.
C14_OneDelayPerFetch ==
    /\ [](pc \in {"fetch", "sleep"} => delays = Len(fetches) - 1)
    /\ [](pc \notin {"fetch", "sleep"} => delays = Len(fetches))
    /\ [][ /\ Len(fetches') > Len(fetches) => delays = Len(fetches)
           /\ (pc = "loop" /\ queue # <<>> /\ queue' = Tail(queue)
                 /\ Head(queue) \in visited)
                => /\ pc' = "loop"
                   /\ fetches' = fetches
                   /\ delays' = delays
                   /\ visited' = visited
                   /\ data' = data ]_vars

\* the crawl ended after a failed fetch, two sleeps and a dropped URL
C14_Witness ==
    /\ pc = "crawled"
    /\ delays >= 2
    /\ Len(pushed) > Len(fetches) + Len(queue)
    /\ \E i \in 1..Len(fetches) : fetches[i].result \in Failed

\* a URL's fetch returned a page that was recorded
FetchedOk(url) ==
    \E i \in 1..Len(fetches) : fetches[i].url = url /\ fetches[i].result = "ok"

\* the absolute URLs of the references the site's page of a URL holds
LinksOf(url) ==
    LET body == Body(site, url)
    IN  {urljoin(url, body[i].val) :
            i \in {j \in 1..Len(body) : body[j].tag = "a" /\ body[j].val # <<>>}}

\* the part of the crawl filter that does not depend on the visited set
OnSiteDocument(url) ==
    /\ urlparse(url).netloc = urlparse(base_url).netloc
    /\ \A suf \in SkippedSuffixes : ~EndsWith(url, suf)

\* the URLs reachable from a set by links of successfully fetched pages
RECURSIVE Reachable(_)
Reachable(S) ==
    LET more == {v \in UNION {LinksOf(u) : u \in {w \in S : FetchedOk(w)}} :
                    OnSiteDocument(v)}
    IN  IF more \subseteq S THEN S ELSE Reachable(S \cup more)

\* C15: with max_pages unset a terminated crawl has fetched, each once,
\* exactly the URLs reachable from the seed through links of successfully
\* fetched pages that pass the crawl filter; a seed whose page has no
\* links gives exactly one fetch.
C15_FetchesReachableSet ==
    (CrawlOver /\ max_pages.isNone)
        => /\ {fetches[i].url : i \in 1..Len(fetches)} = Reachable({base_url})
           /\ Len(fetches) = Cardinality(Reachable({base_url}))
           /\ LinksOf(base_url) = {} => Len(fetches) = 1

\* an unbounded crawl ended with four URLs fetched, one of them in vain
C15_Witness ==
    /\ pc = "crawled"
    /\ max_pages.isNone
    /\ Len(fetches) >= 4
    /\ \E i \in 1..Len(fetches) : fetches[i].result \in Failed

\* C16: on a list of n > 0 proxies rotate_proxy sets the cursor to
\* (cursor + 1) mod n and returns the proxy at the new cursor, so any n
\* successive calls use every position once and bring the cursor back; on
\* an empty list it returns None and leaves the cursor alone.
C16_RoundRobin ==
    LET n == Len(proxies)
        CursorAfter(k) == IF k = 0 THEN 0 ELSE returned[k].cursor
    IN  /\ current_proxy = CursorAfter(Len(returned))
        /\ \A k \in 1..Len(returned) :
             IF n > 0
             THEN /\ returned[k].cursor = (CursorAfter(k - 1) + 1) % n
                  /\ returned[k].proxy = Some(proxies[returned[k].cursor + 1])
                  /\ k >= n =>
                       /\ {returned[m].cursor : m \in (k - n + 1)..k}
                              = 0..(n - 1)
                       /\ returned[k].cursor = CursorAfter(k - n)
             ELSE /\ returned[k].proxy = None
                  /\ returned[k].cursor = CursorAfter(k - 1)

\* two full rounds over a list of two different proxies
C16_Witness ==
    /\ Len(proxies) = 2
    /\ proxies[1] # proxies[2]
    /\ Len(returned) >= 4
    /\ pc = "main"

\* C17: the proxy cursor advances once per crawl session, before the first
\* fetch, and no step of the crawl loop changes it, whether fetches succeed
\* or fail; with an empty proxy list the session has no proxy and the
\* cursor never changes.
C17_RotationOncePerSession ==
    /\ [](pc = "main" => current_proxy = 0 /\ returned = <<>> /\ fetches = <<>>)
    /\ [](pc # "main" =>
            IF Len(proxies) > 0
            THEN /\ current_proxy = 1 % Len(proxies)
                 /\ Len(returned) = 1
                 /\ connector = Some(proxies[current_proxy + 1])
            ELSE /\ current_proxy = 0
                 /\ returned = <<>>
                 /\ connector = None)
    /\ [][ pc # "main" => /\ current_proxy' = current_proxy
                          /\ connector' = connector
                          /\ returned' = returned ]_vars

\* a session over two proxies ended after successful and failed fetches
C17_Witness ==
    /\ pc = "crawled"
    /\ Len(proxies) = 2
    /\ current_proxy = 1
    /\ \E i, j \in 1..Len(fetches) :
         fetches[i].result = "ok" /\ fetches[j].result \in Failed

InFlight == {i \in 1..Len(fetches) : fetches[i].result = "inflight"}

\* C18: at most one fetch is in flight; a URL is dequeued for fetching only
\* when the previous fetch has returned, its record and links are stored
\* and its sleep is over, and the visited set and the queue change only in
\* the one step the loop is at.
C18_SingleFlight ==
    /\ [](/\ Cardinality(InFlight) <= 1
          /\ pc = "fetch" <=> InFlight # {}
          /\ InFlight \subseteq {Len(fetches)})
    /\ [][ /\ Len(fetches') > Len(fetches)
              => /\ pc = "loop"
                 /\ InFlight = {}
                 /\ delays = Len(fetches)
                 /\ \A i \in 1..Len(fetches) :
                      fetches[i].result = "ok"
                          => /\ RecordCount(fetches[i].url) = 1
                             /\ \A v \in LinksOf(fetches[i].url) :
                                  OnSiteDocument(v)
                                      => \E k \in 1..Len(pushed) :
                                             pushed[k] = v
           /\ visited' # visited => pc = "loop" /\ pc' = "fetch"
           /\ queue' # queue => pc \in {"main", "loop", "fetch"} ]_vars

\* a second fetch is in flight after the first was recorded and slept on
C18_Witness ==
    /\ pc = "fetch"
    /\ Len(fetches) >= 2
    /\ Len(data) >= 1
    /\ delays = Len(fetches) - 1
    /\ queue # <<>>

\* C19: every visited URL has the seed's network location, and every
\* visited URL other than the seed does not end in .pdf, .jpg, .png or
\* .gif; the seed itself is never filtered.
C19_VisitedPassedFilter ==
    \A u \in visited :
        /\ urlparse(u).netloc = urlparse(base_url).netloc
        /\ u # base_url => \A suf \in SkippedSuffixes : ~EndsWith(u, suf)

\* a seed ending in .pdf was visited, and so were pages found from it
C19_Witness ==
    /\ base_url = SeedPdf
    /\ SeedPdf \in visited
    /\ Cardinality(visited) >= 3
    /\ \E r \in 1..Len(data) :
         \E l \in 1..Len(data[r].links) : EndsWithAny(data[r].links[l].url)

\* position of a URL's fetch in the history
FetchIndex(url) == CHOOSE i \in 1..Len(fetches) : fetches[i].url = url

\* C20: the records hold at most one record per URL, every record's URL is
\* visited, there are no more records than visited URLs, the records are
\* in fetch order, and no step removes or replaces a record or removes a
\* URL from the visited set.
C20_ResultStoreAppendOnly ==
    /\ [](/\ \A i, j \in 1..Len(data) : data[i].url = data[j].url => i = j
          /\ \A i \in 1..Len(data) : data[i].url \in visited
          /\ Len(data) <= Cardinality(visited)
          /\ \A i, j \in 1..Len(data) :
               i < j => /\ FetchIndex(data[i].url) < FetchIndex(data[j].url)
                        /\ data[i].timestamp < data[j].timestamp)
    /\ [][ /\ Len(data') >= Len(data)
           /\ SubSeq(data', 1, Len(data)) = data
           /\ visited \subseteq visited' ]_vars

\* three records were appended while another fetch had failed
C20_Witness ==
    /\ Len(data) >= 3
    /\ Cardinality(visited) > Len(data)
    /\ \E i \in 1..Len(fetches) : fetches[i].result \in Failed

====
